---- MODULE Spec2Model ----
(***************************************************************************)
(* Model of src/app.py: the PDF & photo text editor session.               *)
(*                                                                         *)
(* State: the fields of PDFCanvas (pdf_doc, current_page, text_blocks,     *)
(* selected_text_item, edit_mode),                                         *)
(* PhotoEditor (image, text_regions, selected_region) and MainWindow       *)
(* (pdf_path, photo_path, edit_history, history_index, selected_position,  *)
(* selected_photo_region, photo_history, the text/font widgets, the tab    *)
(* index).  One action per Qt slot.  The status bar text, the zoom factor  *)
(* and the text colour are display only and are not part of the state.     *)
(* last_op observes the run and is read by no handler.  An exception that  *)
(* leaves a handler either ends the application (PyQt5 from 5.5 on) or is  *)
(* reported and the event loop goes on; the first is a behaviour that      *)
(* stops, the second is the step the model takes.                          *)
(*                                                                         *)
(* Units: PDF coordinates are integers in tenths of a point, so that the   *)
(* code's factors 0.6, 0.8 and 1.2 of the integer font size are exact.     *)
(* Font sizes stored in font_info are in hundredths of a point, so that    *)
(* h * 0.75 is exact.  Texts are sequences of one-character strings.       *)
(* Python's None, an unset attribute and a falsy value are kept apart      *)
(* where the code tells them apart (hasattr versus truthiness).            *)
(***************************************************************************)
EXTENDS Integers, Sequences, FiniteSets, TLC

VARIABLES
    pdf_doc,                \* PDFCanvas.pdf_doc: NoDoc or a sequence of pages
    current_page,           \* PDFCanvas.current_page (0-based)
    text_blocks,            \* PDFCanvas.text_blocks
    selected_text_item,     \* PDFCanvas.selected_text_item: the block of the
                            \* text item clicked last in edit mode
    edit_mode,              \* PDFCanvas.edit_mode
    image,                  \* PhotoEditor.image: NoImage or an image record
    text_regions,           \* PhotoEditor.text_regions
    selected_region,        \* PhotoEditor.selected_region
    pdf_path,               \* MainWindow.pdf_path
    photo_path,             \* MainWindow.photo_path
    edit_history,           \* MainWindow.edit_history
    history_index,          \* MainWindow.history_index (0-based, -1 when empty)
    selected_position,      \* MainWindow.selected_position or Unset
    selected_photo_region,  \* MainWindow.selected_photo_region or Unset
    photo_history,          \* MainWindow.photo_history or Unset
    text_input,             \* MainWindow.text_input (QTextEdit content)
    font_combo,             \* MainWindow.font_combo current family
    font_size,              \* MainWindow.font_size (QSpinBox value)
    tab,                    \* MainWindow.tabs.currentIndex()
    msgbox,                 \* the QMessageBox shown by the last handler, or "none"
    last_op                 \* observation only: <<handler that ran last>>,
                            \* followed by the click point for on_image_click
                            \* and by "raised" or "returned" for mousePressEvent

vars == <<pdf_doc, current_page, text_blocks, selected_text_item, edit_mode,
          image, text_regions,
          selected_region, pdf_path, photo_path, edit_history, history_index,
          selected_position, selected_photo_region, photo_history, text_input,
          font_combo, font_size, tab, msgbox, last_op>>

pdf_vars == <<pdf_doc, current_page, text_blocks>>
canvas_vars == <<selected_text_item, edit_mode>>
photo_vars == <<image, text_regions, selected_region>>
history_vars == <<edit_history, history_index>>
widget_vars == <<text_input, font_combo, font_size>>

(***************************************************************************)
(* Bounds of the model.                                                    *)
(***************************************************************************)
MaxHist == 1            \* snapshots kept in edit_history, whole session
MaxHistPdf == 2         \* snapshots kept in edit_history, PDF-only session
MaxPhotoEdits == 0      \* entries kept in photo_history, whole session:
                        \* photo edits are left to the photo session

(***************************************************************************)
(* Python values.  An optional value (None, or an attribute hasattr() does *)
(* not find) is the empty sequence; a present record is wrapped <<r>>.     *)
(***************************************************************************)
NoPath == "None"        \* pdf_path / photo_path before any open
NoDoc == <<>>           \* pdf_doc before any load: falsy, like a 0-page list
NoImage == <<>>         \* PhotoEditor.image = None
NoRegion == <<>>        \* selected_region = None, selected_photo_region unset
NoPosition == <<>>      \* selected_position unset
NoItem == <<>>          \* selected_text_item = None

Max(a, b) == IF a >= b THEN a ELSE b
Min(a, b) == IF a <= b THEN a ELSE b
Abs(a) == IF a >= 0 THEN a ELSE 0 - a

(***************************************************************************)
(* str.strip(): drops the leading and trailing characters for which        *)
(* str.isspace() holds.  A character TLA+ has no escape for is written by  *)
(* its code point, "U+00A0".                                               *)
(***************************************************************************)
WhiteSpace ==
    {" ", "\t", "\n", "\r", "\f",
     "U+0009", "U+000A", "U+000B", "U+000C", "U+000D",
     "U+001C", "U+001D", "U+001E", "U+001F", "U+0020", "U+0085", "U+00A0",
     "U+1680", "U+2000", "U+2001", "U+2002", "U+2003", "U+2004", "U+2005",
     "U+2006", "U+2007", "U+2008", "U+2009", "U+200A", "U+2028", "U+2029",
     "U+202F", "U+205F", "U+3000"}

IsSpace(c) == c \in WhiteSpace

RECURSIVE LStrip(_)
LStrip(s) ==
    IF s = <<>> THEN s
    ELSE IF IsSpace(Head(s)) THEN LStrip(Tail(s)) ELSE s

RECURSIVE RStrip(_)
RStrip(s) ==
    IF s = <<>> THEN s
    ELSE IF IsSpace(s[Len(s)]) THEN RStrip(SubSeq(s, 1, Len(s) - 1)) ELSE s

strip(s) == RStrip(LStrip(s))

(***************************************************************************)
(* The files the user can pick in the dialogs.  A PDF document is the      *)
(* sequence of its pages; a page is the sequence of its raw spans in       *)
(* document order, as page.get_text("dict") reports them.                  *)
(***************************************************************************)
RawSpan(t, x0, y0, x1, y1, f, sz) ==
    [text |-> t, bbox |-> <<x0, y0, x1, y1>>, font |-> f, size |-> sz]

PdfA ==
    << << RawSpan(<<"A">>, 100, 100, 130, 244, "Arial", 1200),
          RawSpan(<<" ">>, 140, 100, 170, 244, "Arial", 1200) >>,
       << RawSpan(<<" ">>, 100, 100, 130, 244, "Arial", 1200) >> >>

(* A file whose first page has two spans less than 5 points apart, the     *)
(* narrow one first in document order, and a third span far from both, in  *)
(* a family the engine has built in.                                       *)
PdfNear ==
    << << RawSpan(<<"A">>, 100, 100, 120, 244, "Arial", 1200),
          RawSpan(<<"B">>, 130, 120, 200, 264, "Arial", 1200),
          RawSpan(<<"C">>, 400, 100, 470, 244, "Courier", 1200) >>,
       << RawSpan(<<"C">>, 400, 400, 470, 544, "Courier", 1200) >> >>

PdfFiles == {"a.pdf", "near.pdf", "bad.pdf"}

(* fitz.open(file_path) raises for the files of OpenFails; otherwise it    *)
(* returns the document.                                                   *)
OpenFails(file_path) == file_path \in {"bad.pdf", "bad.png"}

fitz_open(file_path) ==
    IF file_path = "a.pdf" THEN PdfA
    ELSE IF file_path = "near.pdf" THEN PdfNear
    ELSE NoDoc

(***************************************************************************)
(* PDFCanvas.extract_text_blocks and display_page.                         *)
(***************************************************************************)
Block(span) ==
    [text |-> strip(span.text),
     x |-> span.bbox[1],
     y |-> span.bbox[2],
     width |-> span.bbox[3] - span.bbox[1],
     height |-> span.bbox[4] - span.bbox[2],
     font_info |-> [font |-> span.font, size |-> span.size]]

SpanKept(span) == strip(span.text) # <<>>

extract_text_blocks(page) ==
    LET kept == SelectSeq(page, SpanKept)
    IN  [i \in 1 .. Len(kept) |-> Block(kept[i])]

(* display_page(page_num) on document doc: the new <<current_page,         *)
(* text_blocks, whether it raised>>.  An early return leaves both as they  *)
(* were.  current_page is assigned before page.get_pixmap renders the      *)
(* page; render_ok is whether that call returns, and when it raises the    *)
(* scene and text_blocks are still those of the page shown before.         *)
display_page(doc, page_num, cur, blocks, render_ok) ==
    IF doc = NoDoc \/ page_num < 0 \/ page_num >= Len(doc)
    THEN <<cur, blocks, FALSE>>
    ELSE IF render_ok
    THEN <<page_num, extract_text_blocks(doc[page_num + 1]), FALSE>>
    ELSE <<page_num, blocks, TRUE>>

(***************************************************************************)
(* MainWindow.save_state, with pdf_doc.tobytes() and                       *)
(* fitz.open(stream=...), the engine's serialisation round trip.           *)
(***************************************************************************)
tobytes(doc) == <<"%PDF", doc>>

open_stream(doc_data) == doc_data[2]

(* The snapshot tagged with the first page whatever page is shown.         *)
Snapshot_first_page(doc, cur) ==
    [type |-> "pdf", page |-> 0, doc_data |-> tobytes(doc)]

Snapshot(doc, cur) ==
    [type |-> "pdf", page |-> cur, doc_data |-> tobytes(doc)]

(* save_state without the slice that drops the redo future.                *)
save_state_keeps_future(doc, cur, hist, idx) ==
    IF doc # NoDoc
    THEN LET h == Append(hist, Snapshot(doc, cur))
         IN  <<h, Len(h) - 1>>
    ELSE <<hist, idx>>

(* The new <<edit_history, history_index>>.                                *)
save_state(doc, cur, hist, idx) ==
    IF doc # NoDoc
    THEN LET h == Append(SubSeq(hist, 1, idx + 1), Snapshot(doc, cur))
         IN  <<h, Len(h) - 1>>
    ELSE <<hist, idx>>

(* MainWindow.restore_state: the new <<pdf_doc, current_page, text_blocks, *)
(* whether display_page raised>>.                                          *)
restore_state(hist, idx, doc, cur, blocks, render_ok) ==
    IF 0 <= idx /\ idx < Len(hist)
    THEN LET state == hist[idx + 1]
         IN  IF state.type = "pdf" /\ doc # NoDoc
             THEN LET d == open_stream(state.doc_data)
                      shown == display_page(d, state.page, cur, blocks,
                                            render_ok)
                  IN  <<d, shown[1], shown[2], shown[3]>>
             ELSE <<doc, cur, blocks, FALSE>>
    ELSE <<doc, cur, blocks, FALSE>>

(***************************************************************************)
(* MainWindow.apply_pdf_edit.                                              *)
(***************************************************************************)
Tolerance == 50     \* "< 5" units, in tenths of a point

Near(block, pos) ==
    Abs(block.x - pos[1]) < Tolerance /\ Abs(block.y - pos[2]) < Tolerance

(* The first block of the list near pos: its index, or 0.                  *)
original_block(blocks, pos) ==
    IF \E i \in 1 .. Len(blocks) : Near(blocks[i], pos)
    THEN CHOOSE i \in 1 .. Len(blocks) :
            /\ Near(blocks[i], pos)
            /\ \A j \in 1 .. i - 1 : ~Near(blocks[j], pos)
    ELSE 0

(* fitz.Rect as <<x0, y0, x1, y1>>.                                        *)
erase_rect(blocks, pos, text, fsize) ==
    LET i == original_block(blocks, pos)
    IN  IF i # 0
        THEN <<blocks[i].x, blocks[i].y,
               blocks[i].x + blocks[i].width, blocks[i].y + blocks[i].height>>
        ELSE <<pos[1], pos[2],
               pos[1] + Len(text) * fsize * 6, pos[2] + fsize * 12>>

Intersects(a, b) ==
    a[1] < b[3] /\ b[1] < a[3] /\ a[2] < b[4] /\ b[2] < a[4]

(* page.add_redact_annot(rect); page.apply_redactions(): every span that   *)
(* overlaps the rectangle is removed from the page.                        *)
apply_redactions(page, rect) ==
    LET Keep(span) == ~Intersects(span.bbox, rect)
    IN  SelectSeq(page, Keep)

(* The families page.insert_text accepts without a font file.              *)
BuiltinFonts == {"helv", "Helvetica", "Courier", "Times-Roman"}

(* page.insert_text(point, text, fontsize, fontname): the engine adds a    *)
(* span whose box starts at the point's x, one ascent above the baseline.  *)
insert_text(page, point, text, fsize, fname) ==
    Append(page,
           RawSpan(text, point[1], point[2] - fsize * 8,
                   point[1] + Len(text) * fsize * 6,
                   point[2] - fsize * 8 + fsize * 12,
                   IF fname = "helv" THEN "Helvetica" ELSE fname,
                   fsize * 100))

(* The try/except around insert_text: the fallback to "helv".              *)
insert_with_fallback(page, point, text, fsize, fname) ==
    IF fname \in BuiltinFonts
    THEN insert_text(page, point, text, fsize, fname)
    ELSE insert_text(page, point, text, fsize, "helv")

(* The new <<pdf_doc, current_page, text_blocks, whether the closing       *)
(* display_page raised>>.                                                  *)
apply_pdf_edit(doc, cur, blocks, pos, text, fname, fsize, render_ok) ==
    IF doc = NoDoc
    THEN <<doc, cur, blocks, FALSE>>
    ELSE LET page == doc[cur + 1]
             rect == erase_rect(blocks, pos, text, fsize)
             erased == apply_redactions(page, rect)
             point == <<pos[1], pos[2] + fsize * 8>>
             edited == insert_with_fallback(erased, point, text, fsize, fname)
             d == [doc EXCEPT ![cur + 1] = edited]
             shown == display_page(d, cur, cur, blocks, render_ok)
         IN  <<d, shown[1], shown[2], shown[3]>>

(***************************************************************************)
(* Photos.  An image is the record of what Image.open read: the file, its  *)
(* pixel size, the tokens pytesseract.image_to_data reports on it (text,   *)
(* conf, left, top, width, height, in scan order) and the texts painted on *)
(* it since.  The OCR button reads the tokens of the opened file.          *)
(***************************************************************************)
Token(t, c, l, tp, w, h) ==
    [text |-> t, conf |-> c, left |-> l, top |-> tp, width |-> w, height |-> h]

TokensP ==
    << Token(<<"A">>, 90, 10, 10, 40, 16),
       Token(<<" ">>, 95, 0, 0, 80, 40),
       Token(<<"A", " ">>, 20, 30, 10, 40, 16),
       Token(<<"Z">>, 20, 10, 10, 40, 16) >>

PhotoFiles == {"p.png", "bad.png"}

Image_open(file_path) ==
    [file |-> file_path,
     size |-> <<80, 40>>,
     tokens |-> IF file_path = "p.png" THEN TokensP ELSE <<>>,
     painted |-> <<>>]

(***************************************************************************)
(* PhotoEditor.extract_text_with_ocr: the loop over the OCR tokens.        *)
(***************************************************************************)
ConfThreshold == 30

(* int(conf) if conf != '-1' else 0                                        *)
token_conf(tok) == IF tok.conf = -1 THEN 0 ELSE tok.conf

(* The filter with the threshold itself let through.                       *)
TokenKept_at_threshold(tok) ==
    strip(tok.text) # <<>> /\ token_conf(tok) >= ConfThreshold

TokenKept(tok) == strip(tok.text) # <<>> /\ token_conf(tok) > ConfThreshold

Region(tok) ==
    [text |-> strip(tok.text),
     x |-> tok.left,
     y |-> tok.top,
     width |-> tok.width,
     height |-> tok.height,
     confidence |-> token_conf(tok),
     font_info |-> [font |-> "Arial", size |-> Max(tok.height * 75, 1000)]]

ocr_regions(tokens) ==
    LET kept == SelectSeq(tokens, TokenKept)
    IN  [i \in 1 .. Len(kept) |-> Region(kept[i])]

(***************************************************************************)
(* PhotoEditor.on_image_click: the region the click selects, wrapped, or   *)
(* NoRegion when the loop finds none.                                      *)
(***************************************************************************)
Contains(region, cx, cy) ==
    /\ region.x <= cx /\ cx <= region.x + region.width
    /\ region.y <= cy /\ cy <= region.y + region.height

(* The loop without its break: the last containing region wins.            *)
hit_region_last(regions, cx, cy) ==
    IF \E i \in 1 .. Len(regions) : Contains(regions[i], cx, cy)
    THEN LET i == CHOOSE k \in 1 .. Len(regions) :
                     /\ Contains(regions[k], cx, cy)
                     /\ \A j \in k + 1 .. Len(regions) :
                            ~Contains(regions[j], cx, cy)
         IN  <<regions[i]>>
    ELSE NoRegion

hit_region(regions, cx, cy) ==
    IF \E i \in 1 .. Len(regions) : Contains(regions[i], cx, cy)
    THEN LET i == CHOOSE k \in 1 .. Len(regions) :
                     /\ Contains(regions[k], cx, cy)
                     /\ \A j \in 1 .. k - 1 : ~Contains(regions[j], cx, cy)
         IN  <<regions[i]>>
    ELSE NoRegion

(***************************************************************************)
(* MainWindow.apply_photo_edit: the new <<image, photo_history, whether    *)
(* the closing display_image() raised>>.  The font is the family's         *)
(* TrueType file at the requested size when the platform's font directory  *)
(* has one, and PIL's default font otherwise.  render_ok is whether        *)
(* display_image() converts the new image, which is assigned before it.    *)
(***************************************************************************)
TrueTypeFiles == {"Arial"}

font_obj(fname, fsize) ==
    IF fname \in TrueTypeFiles THEN <<fname, fsize>> ELSE <<"default">>

paint(img, x, y, text, font) ==
    [img EXCEPT !.painted =
        Append(@, [text |-> text, x |-> x, y |-> y, font |-> font])]

(* apply_photo_edit keeping a single undo copy instead of appending.       *)
apply_photo_edit_single_copy(img, phist, sel, text, fname, fsize, render_ok) ==
    IF img = NoImage
    THEN <<img, phist, FALSE>>
    ELSE LET at == IF sel # NoRegion
                   THEN <<sel[1].x, sel[1].y>>
                   ELSE <<img[1].size[1] \div 2, img[1].size[2] \div 2>>
         IN  << <<paint(img[1], at[1], at[2], text, font_obj(fname, fsize))>>,
                <<img[1]>>, ~render_ok >>

apply_photo_edit(img, phist, sel, text, fname, fsize, render_ok) ==
    IF img = NoImage
    THEN <<img, phist, FALSE>>
    ELSE LET at == IF sel # NoRegion
                   THEN <<sel[1].x, sel[1].y>>
                   ELSE <<img[1].size[1] \div 2, img[1].size[2] \div 2>>
         IN  << <<paint(img[1], at[1], at[2], text, font_obj(fname, fsize))>>,
                Append(phist, img[1]), ~render_ok >>

(***************************************************************************)
(* The widgets the selection handlers fill in.  QSpinBox.setValue clamps   *)
(* to the range set at construction; int() truncates.                      *)
(***************************************************************************)
FontSizeMin == 6
FontSizeMax == 144
FontSizeDefault == 12

spin_value(size100) == Min(Max(size100 \div 100, FontSizeMin), FontSizeMax)

(***************************************************************************)
(* Initial state: MainWindow.__init__, PDFCanvas.__init__,                 *)
(* PhotoEditor.__init__ and create_editor_panel.                           *)
(***************************************************************************)
Init ==
    /\ pdf_doc = NoDoc
    /\ current_page = 0
    /\ text_blocks = <<>>
    /\ selected_text_item = NoItem
    /\ edit_mode = FALSE
    /\ image = NoImage
    /\ text_regions = <<>>
    /\ selected_region = NoRegion
    /\ pdf_path = NoPath
    /\ photo_path = NoPath
    /\ edit_history = <<>>
    /\ history_index = -1
    /\ selected_position = NoPosition
    /\ selected_photo_region = NoRegion
    /\ photo_history = <<>>
    /\ text_input = <<>>
    /\ font_combo = "Sans Serif"
    /\ font_size = FontSizeDefault
    /\ tab = 0
    /\ msgbox = "none"
    /\ last_op = <<"init">>

(***************************************************************************)
(* What a handler leaves in last_op: its name, its inputs, and "raised"    *)
(* last when an exception left it.  Nothing in the program catches such an *)
(* exception: PyQt reports it and either aborts the process, which ends    *)
(* the behaviour in the state the handler left, or returns to the event    *)
(* loop, which is the step taken here.                                     *)
(***************************************************************************)
Tag(op, raised) == IF raised THEN Append(op, "raised") ELSE op

(***************************************************************************)
(* PDFCanvas.load_pdf: <<whether it returned True, pdf_doc, current_page,  *)
(* text_blocks>>.  The try covers fitz.open, current_page = 0 and          *)
(* display_page(0); render_ok is whether page.get_pixmap renders the first *)
(* page, and when it raises the document is already replaced while the     *)
(* scene and text_blocks are still those shown before.                     *)
(***************************************************************************)
load_pdf(file_path, render_ok, doc, cur, blocks) ==
    IF OpenFails(file_path)
    THEN <<FALSE, doc, cur, blocks>>
    ELSE LET d == fitz_open(file_path)
             shown == display_page(d, 0, 0, blocks, render_ok)
         IN  <<~shown[3], d, shown[1], shown[2]>>

(***************************************************************************)
(* MainWindow.open_pdf.  NoFile is the cancelled file dialog.              *)
(***************************************************************************)
NoFile == ""

(* open_pdf starting a fresh history for the document it loads.            *)
open_pdf_resets_history(file_path, render_ok) ==
    LET r == load_pdf(file_path, render_ok, pdf_doc, current_page, text_blocks)
    IN  /\ last_op' = <<"open_pdf">>
        /\ IF file_path = NoFile
           THEN /\ msgbox' = "none"
                /\ UNCHANGED <<pdf_path, pdf_vars, tab, history_vars>>
           ELSE /\ pdf_path' = file_path
                /\ pdf_doc' = r[2]
                /\ current_page' = r[3]
                /\ text_blocks' = r[4]
                /\ tab' = IF r[1] THEN 0 ELSE tab
                /\ msgbox' = IF r[1] THEN "none" ELSE "Failed to load PDF"
                /\ edit_history' = IF r[1] THEN <<>> ELSE edit_history
                /\ history_index' = IF r[1] THEN -1 ELSE history_index
        /\ UNCHANGED <<canvas_vars, photo_vars, photo_path, selected_position,
                       selected_photo_region, photo_history, widget_vars>>

open_pdf(file_path, render_ok) ==
    LET r == load_pdf(file_path, render_ok, pdf_doc, current_page, text_blocks)
    IN  /\ last_op' = <<"open_pdf">>
        /\ IF file_path = NoFile
           THEN /\ msgbox' = "none"
                /\ UNCHANGED <<pdf_path, pdf_vars, tab>>
           ELSE /\ pdf_path' = file_path
                /\ pdf_doc' = r[2]
                /\ current_page' = r[3]
                /\ text_blocks' = r[4]
                /\ tab' = IF r[1] THEN 0 ELSE tab
                /\ msgbox' = IF r[1] THEN "none" ELSE "Failed to load PDF"
        /\ UNCHANGED <<canvas_vars, photo_vars, photo_path, history_vars,
                       selected_position, selected_photo_region, photo_history,
                       widget_vars>>

(***************************************************************************)
(* PhotoEditor.extract_text_with_ocr as a slot of the OCR button and as    *)
(* called by open_photo: the new <<text_regions, msgbox>>.  ocr is how the *)
(* try block ends: "ok"; "engine" when pytesseract raises (it is not       *)
(* installed), before text_regions is assigned; "display" when             *)
(* display_image_with_regions raises, after it is.                         *)
(***************************************************************************)
OcrRuns == {"ok", "engine", "display"}

extract_text_with_ocr(img, regions, ocr) ==
    IF img = NoImage
    THEN <<regions, "No Image">>
    ELSE IF ocr = "ok"
         THEN <<ocr_regions(img[1].tokens), "none">>
         ELSE IF ocr = "display"
              THEN <<ocr_regions(img[1].tokens), "OCR Error">>
              ELSE <<regions, "OCR Error">>

ocr_button(ocr) ==
    LET r == extract_text_with_ocr(image, text_regions, ocr)
    IN  /\ last_op' = <<"extract_text_with_ocr">>
        /\ text_regions' = r[1]
        /\ msgbox' = r[2]
        /\ UNCHANGED <<pdf_vars, canvas_vars, image, selected_region, pdf_path,
                       photo_path, history_vars, selected_position,
                       selected_photo_region, photo_history, widget_vars, tab>>

(***************************************************************************)
(* PhotoEditor.load_image: <<whether it returned True, image>>.  The try   *)
(* covers Image.open and display_image(); render_ok is whether             *)
(* display_image shows the picture, and when it raises the image is        *)
(* already replaced.                                                       *)
(***************************************************************************)
load_image(file_path, render_ok, img) ==
    IF OpenFails(file_path)
    THEN <<FALSE, img>>
    ELSE <<render_ok, <<Image_open(file_path)>> >>

(***************************************************************************)
(* MainWindow.open_photo.                                                  *)
(***************************************************************************)
open_photo(file_path, render_ok, ocr) ==
    LET l == load_image(file_path, render_ok, image)
        r == IF l[1]
             THEN extract_text_with_ocr(l[2], text_regions, ocr)
             ELSE <<text_regions, "Failed to load image">>
    IN  /\ last_op' = <<"open_photo">>
        /\ IF file_path = NoFile
           THEN /\ msgbox' = "none"
                /\ UNCHANGED <<photo_path, image, text_regions, tab>>
           ELSE /\ photo_path' = file_path
                /\ image' = l[2]
                /\ tab' = IF l[1] THEN 1 ELSE tab
                /\ text_regions' = r[1]
                /\ msgbox' = r[2]
        /\ UNCHANGED <<pdf_vars, canvas_vars, selected_region, pdf_path,
                       history_vars, selected_position, selected_photo_region,
                       photo_history, widget_vars>>

(***************************************************************************)
(* The user: switching tabs, typing into the text box, picking a family in *)
(* the font box and a size in the spin box.                                *)
(***************************************************************************)
TypedTexts == {<<>>, <<"X">>}

set_tab(i) ==
    /\ i # tab
    /\ tab' = i
    /\ last_op' = <<"set_tab">>
    /\ msgbox' = "none"
    /\ UNCHANGED <<pdf_vars, canvas_vars, photo_vars, pdf_path, photo_path,
                   history_vars, selected_position, selected_photo_region,
                   photo_history, widget_vars>>

type_text(t) ==
    /\ t # text_input
    /\ text_input' = t
    /\ last_op' = <<"type_text">>
    /\ msgbox' = "none"
    /\ UNCHANGED <<pdf_vars, canvas_vars, photo_vars, pdf_path, photo_path,
                   history_vars, selected_position, selected_photo_region,
                   photo_history, font_combo, font_size, tab>>

(* QFontComboBox: the user picks one of the families it lists.             *)
set_font(family) ==
    /\ family # font_combo
    /\ font_combo' = family
    /\ last_op' = <<"set_font">>
    /\ msgbox' = "none"
    /\ UNCHANGED <<pdf_vars, canvas_vars, photo_vars, pdf_path, photo_path,
                   history_vars, selected_position, selected_photo_region,
                   photo_history, text_input, font_size, tab>>

(* QSpinBox: the user sets a value of the range.                           *)
set_font_size(n) ==
    /\ n # font_size
    /\ n \in FontSizeMin .. FontSizeMax
    /\ font_size' = n
    /\ last_op' = <<"set_font_size">>
    /\ msgbox' = "none"
    /\ UNCHANGED <<pdf_vars, canvas_vars, photo_vars, pdf_path, photo_path,
                   history_vars, selected_position, selected_photo_region,
                   photo_history, text_input, font_combo, tab>>

(***************************************************************************)
(* MainWindow.toggle_edit_mode, the slot of the checkable Edit Mode        *)
(* action: checked is the opposite of what it was.                         *)
(***************************************************************************)
toggle_edit_mode ==
    /\ edit_mode' = ~edit_mode
    /\ last_op' = <<"toggle_edit_mode">>
    /\ msgbox' = "none"
    /\ UNCHANGED <<pdf_vars, selected_text_item, photo_vars, pdf_path,
                   photo_path, history_vars, selected_position,
                   selected_photo_region, photo_history, widget_vars, tab>>

(***************************************************************************)
(* MainWindow.on_text_selected, the slot of PDFCanvas.textSelected: what   *)
(* it assigns.                                                             *)
(***************************************************************************)
on_text_selected(block) ==
    /\ text_input' = block.text
    /\ font_combo' = block.font_info.font
    /\ font_size' = spin_value(block.font_info.size)
    /\ selected_position' = <<block.x, block.y>>

(***************************************************************************)
(* PDFCanvas.mousePressEvent for a left click on the text item of the      *)
(* i-th displayed block.  scene.items() lists the items topmost first: the *)
(* text items, the one added last first, and then the page pixmap, which   *)
(* display_page adds before any of them.  The recolouring loop rebinds     *)
(* item, so the statements after the loop act on the last item of the      *)
(* list: on a text item they emit textSelected with its block, on the      *)
(* pixmap setDefaultTextColor raises AttributeError and nothing is         *)
(* emitted.                                                                *)
(***************************************************************************)
scene_items(blocks) ==
    [k \in 1 .. Len(blocks) + 1 |->
        IF k <= Len(blocks)
        THEN [kind |-> "text", block |-> blocks[Len(blocks) + 1 - k]]
        ELSE [kind |-> "pixmap", block |-> <<>>]]

mousePressEvent(i) ==
    LET items == scene_items(text_blocks)
        item == items[Len(items)]
    IN  /\ i \in 1 .. Len(text_blocks)
        /\ msgbox' = "none"
        /\ IF edit_mode
           THEN /\ selected_text_item' = <<text_blocks[i]>>
                /\ IF item.kind = "text"
                   THEN /\ on_text_selected(item.block)
                        /\ last_op' = Tag(<<"mousePressEvent">>, FALSE)
                   ELSE /\ last_op' = Tag(<<"mousePressEvent">>, TRUE)
                        /\ UNCHANGED <<widget_vars, selected_position>>
           ELSE /\ last_op' = Tag(<<"mousePressEvent">>, FALSE)
                /\ UNCHANGED <<selected_text_item, widget_vars,
                               selected_position>>
        /\ UNCHANGED <<pdf_vars, edit_mode, photo_vars, pdf_path, photo_path,
                       history_vars, selected_photo_region, photo_history, tab>>

(***************************************************************************)
(* PhotoEditor.on_image_click with MainWindow.on_photo_text_selected, the  *)
(* slot of textRegionSelected.  The selection is stored and the signal     *)
(* emitted before highlight_region draws; render_ok is whether that        *)
(* drawing returns, and nothing catches what it raises.                    *)
(***************************************************************************)
on_image_click(cx, cy, render_ok) ==
    LET hit == IF text_regions # <<>>
               THEN hit_region(text_regions, cx, cy)
               ELSE NoRegion
    IN  /\ last_op' = Tag(<<"on_image_click", cx, cy>>,
                          hit # NoRegion /\ image # NoImage /\ ~render_ok)
        /\ msgbox' = "none"
        /\ IF hit # NoRegion
           THEN /\ selected_region' = hit
                /\ selected_photo_region' = hit
                /\ text_input' = hit[1].text
                /\ font_combo' = hit[1].font_info.font
                /\ font_size' = spin_value(hit[1].font_info.size)
           ELSE UNCHANGED <<selected_region, selected_photo_region, widget_vars>>
        /\ UNCHANGED <<pdf_vars, canvas_vars, image, text_regions, pdf_path,
                       photo_path, history_vars, selected_position,
                       photo_history, tab>>

(***************************************************************************)
(* MainWindow.export_pdf, export_docx and export_png: the message box each *)
(* ends with.  save is what the save dialog and the write give: "cancel",  *)
(* "ok", or "fails" when writing the file raises.                          *)
(***************************************************************************)
SaveRuns == {"cancel", "ok", "fails"}

save_message(save) ==
    IF save = "cancel" THEN "none"
    ELSE IF save = "ok" THEN "Success" ELSE "Error"

export_pdf(save) ==
    /\ last_op' = <<"export_pdf">>
    /\ msgbox' = IF pdf_doc = NoDoc THEN "No Document" ELSE save_message(save)
    /\ UNCHANGED <<pdf_vars, canvas_vars, photo_vars, pdf_path, photo_path,
                   history_vars, selected_position, selected_photo_region,
                   photo_history, widget_vars, tab>>

export_docx(save) ==
    /\ last_op' = <<"export_docx">>
    /\ msgbox' = IF pdf_doc = NoDoc THEN "No Document" ELSE save_message(save)
    /\ UNCHANGED <<pdf_vars, canvas_vars, photo_vars, pdf_path, photo_path,
                   history_vars, selected_position, selected_photo_region,
                   photo_history, widget_vars, tab>>

export_png(save) ==
    /\ last_op' = <<"export_png">>
    /\ msgbox' = IF tab = 0 /\ pdf_doc # NoDoc THEN save_message(save)
                 ELSE IF tab = 1 /\ image # NoImage THEN save_message(save)
                 ELSE "No Document"
    /\ UNCHANGED <<pdf_vars, canvas_vars, photo_vars, pdf_path, photo_path,
                   history_vars, selected_position, selected_photo_region,
                   photo_history, widget_vars, tab>>

(***************************************************************************)
(* MainWindow.apply_text_changes.  The outcome of the handler on the       *)
(* current state: the new working document, history, image and photo undo  *)
(* list, and the message box it shows; the last entry of pdf and of photo  *)
(* is whether the closing display_page or display_image() raised, and      *)
(* render_ok is whether that call returns.                                 *)
(***************************************************************************)
Outcome(pdf, hist, photo, msg) ==
    [pdf |-> pdf, hist |-> hist, photo |-> photo, msg |-> msg]

(* The photo branch without its selection check: apply_photo_edit is       *)
(* called whenever the photo tab is current.                               *)
apply_outcome_photo_unchecked(render_ok) ==
    LET saved == save_state(pdf_doc, current_page, edit_history, history_index)
    IN  IF tab = 0 /\ selected_position # NoPosition
        THEN Outcome(apply_pdf_edit(pdf_doc, current_page, text_blocks,
                                    selected_position, text_input,
                                    font_combo, font_size, render_ok),
                     saved, <<image, photo_history, FALSE>>, "none")
        ELSE IF tab = 1
        THEN Outcome(<<pdf_doc, current_page, text_blocks, FALSE>>, saved,
                     apply_photo_edit(image, photo_history,
                                      selected_photo_region, text_input,
                                      font_combo, font_size, render_ok),
                     "none")
        ELSE Outcome(<<pdf_doc, current_page, text_blocks, FALSE>>, saved,
                     <<image, photo_history, FALSE>>, "none")

(* The photo branch followed by a refresh of the PDF canvas at its first   *)
(* page.                                                                   *)
apply_outcome_photo_refreshes_pdf(render_ok) ==
    LET saved == save_state(pdf_doc, current_page, edit_history, history_index)
        shown == display_page(pdf_doc, 0, current_page, text_blocks, TRUE)
    IN  IF tab = 0 /\ selected_position # NoPosition
        THEN Outcome(apply_pdf_edit(pdf_doc, current_page, text_blocks,
                                    selected_position, text_input,
                                    font_combo, font_size, render_ok),
                     saved, <<image, photo_history, FALSE>>, "none")
        ELSE IF tab = 1 /\ selected_photo_region # NoRegion
        THEN Outcome(<<pdf_doc, shown[1], shown[2], FALSE>>, saved,
                     apply_photo_edit(image, photo_history,
                                      selected_photo_region, text_input,
                                      font_combo, font_size, render_ok),
                     "none")
        ELSE Outcome(<<pdf_doc, current_page, text_blocks, FALSE>>, saved,
                     <<image, photo_history, FALSE>>,
                     IF tab = 1 THEN "No Selection" ELSE "none")

(* The handler past its empty-text check: save_state, then the edit.       *)
apply_nonempty_outcome(render_ok) ==
    LET new_text == text_input
        same_pdf == <<pdf_doc, current_page, text_blocks, FALSE>>
        same_photo == <<image, photo_history, FALSE>>
        saved == save_state(pdf_doc, current_page, edit_history, history_index)
    IN  IF tab = 0 /\ selected_position # NoPosition
        THEN Outcome(apply_pdf_edit(pdf_doc, current_page, text_blocks,
                                    selected_position, new_text,
                                    font_combo, font_size, render_ok),
                     saved, same_photo, "none")
        ELSE IF tab = 1
        THEN IF selected_photo_region # NoRegion
             THEN Outcome(same_pdf, saved,
                          apply_photo_edit(image, photo_history,
                                           selected_photo_region, new_text,
                                           font_combo, font_size, render_ok),
                          "none")
             ELSE Outcome(same_pdf, saved, same_photo, "No Selection")
        ELSE Outcome(same_pdf, saved, same_photo, "none")

(* The handler without its empty-text return.                              *)
apply_outcome_without_empty_check(render_ok) ==
    apply_nonempty_outcome(render_ok)

apply_text_changes_outcome(render_ok) ==
    IF text_input = <<>>
    THEN Outcome(<<pdf_doc, current_page, text_blocks, FALSE>>,
                 <<edit_history, history_index>>,
                 <<image, photo_history, FALSE>>, "none")
    ELSE apply_nonempty_outcome(render_ok)

apply_text_changes_bounded(max_hist, max_photo, render_ok) ==
    LET out == apply_text_changes_outcome(render_ok)
    IN  /\ Len(out.hist[1]) <= max_hist
        /\ Len(out.photo[2]) <= max_photo
        /\ last_op' = Tag(<<"apply_text_changes">>,
                          out.pdf[4] \/ out.photo[3])
        /\ pdf_doc' = out.pdf[1]
        /\ current_page' = out.pdf[2]
        /\ text_blocks' = out.pdf[3]
        /\ edit_history' = out.hist[1]
        /\ history_index' = out.hist[2]
        /\ image' = out.photo[1]
        /\ photo_history' = out.photo[2]
        /\ msgbox' = out.msg
        /\ UNCHANGED <<canvas_vars, text_regions, selected_region, pdf_path,
                       photo_path, selected_position, selected_photo_region,
                       widget_vars, tab>>

apply_text_changes(max_hist, render_ok) ==
    apply_text_changes_bounded(max_hist, MaxPhotoEdits, render_ok)

(***************************************************************************)
(* MainWindow.prev_page and next_page.  Neither catches what display_page  *)
(* raises.                                                                 *)
(***************************************************************************)
prev_page(render_ok) ==
    LET shown == IF pdf_doc # NoDoc /\ current_page > 0
                 THEN display_page(pdf_doc, current_page - 1,
                                   current_page, text_blocks, render_ok)
                 ELSE <<current_page, text_blocks, FALSE>>
    IN  /\ last_op' = Tag(<<"prev_page">>, shown[3])
        /\ msgbox' = "none"
        /\ current_page' = shown[1]
        /\ text_blocks' = shown[2]
        /\ UNCHANGED <<pdf_doc, canvas_vars, photo_vars, pdf_path, photo_path,
                       history_vars, selected_position, selected_photo_region,
                       photo_history, widget_vars, tab>>

next_page(render_ok) ==
    LET shown == IF pdf_doc # NoDoc /\ current_page < Len(pdf_doc) - 1
                 THEN display_page(pdf_doc, current_page + 1,
                                   current_page, text_blocks, render_ok)
                 ELSE <<current_page, text_blocks, FALSE>>
    IN  /\ last_op' = Tag(<<"next_page">>, shown[3])
        /\ msgbox' = "none"
        /\ current_page' = shown[1]
        /\ text_blocks' = shown[2]
        /\ UNCHANGED <<pdf_doc, canvas_vars, photo_vars, pdf_path, photo_path,
                       history_vars, selected_position, selected_photo_region,
                       photo_history, widget_vars, tab>>

(***************************************************************************)
(* MainWindow.undo and redo: the new history_index, then restore_state,    *)
(* whose display_page neither of them guards.                              *)
(***************************************************************************)
undo_index(hist, idx) == IF idx > 0 THEN idx - 1 ELSE idx

(* redo with the guard history_index < len(edit_history).                  *)
redo_index_past_end(hist, idx) == IF idx < Len(hist) THEN idx + 1 ELSE idx

redo_index(hist, idx) == IF idx < Len(hist) - 1 THEN idx + 1 ELSE idx

undo(render_ok) ==
    LET idx == undo_index(edit_history, history_index)
        r == IF idx # history_index
             THEN restore_state(edit_history, idx, pdf_doc,
                                current_page, text_blocks, render_ok)
             ELSE <<pdf_doc, current_page, text_blocks, FALSE>>
    IN  /\ last_op' = Tag(<<"undo">>, r[4])
        /\ msgbox' = "none"
        /\ history_index' = idx
        /\ pdf_doc' = r[1]
        /\ current_page' = r[2]
        /\ text_blocks' = r[3]
        /\ UNCHANGED <<canvas_vars, photo_vars, pdf_path, photo_path,
                       edit_history, selected_position, selected_photo_region,
                       photo_history, widget_vars, tab>>

redo(render_ok) ==
    LET idx == redo_index(edit_history, history_index)
        r == IF idx # history_index
             THEN restore_state(edit_history, idx, pdf_doc,
                                current_page, text_blocks, render_ok)
             ELSE <<pdf_doc, current_page, text_blocks, FALSE>>
    IN  /\ last_op' = Tag(<<"redo">>, r[4])
        /\ msgbox' = "none"
        /\ history_index' = idx
        /\ pdf_doc' = r[1]
        /\ current_page' = r[2]
        /\ text_blocks' = r[3]
        /\ UNCHANGED <<canvas_vars, photo_vars, pdf_path, photo_path,
                       edit_history, selected_position, selected_photo_region,
                       photo_history, widget_vars, tab>>

(***************************************************************************)
(* The session: the handlers of the toolbar, the editor panel, the two     *)
(* canvases and the file dialogs, with the inputs drawn from the sets      *)
(* below.  The colour dialog, the zoom actions and the status bar change   *)
(* nothing the model keeps.                                                *)
(***************************************************************************)
ClickPoints == {<<5, 5>>, <<35, 15>>}

Families == {"Sans Serif", "Arial"}

Sizes == {FontSizeMax}

Next ==
    \/ \E f \in {"a.pdf", "bad.pdf", NoFile}, ok \in BOOLEAN : open_pdf(f, ok)
    \/ \E f \in PhotoFiles \cup {NoFile}, ok \in BOOLEAN, ocr \in OcrRuns :
           open_photo(f, ok, ocr)
    \/ \E ocr \in OcrRuns : ocr_button(ocr)
    \/ \E i \in {0, 1} : set_tab(i)
    \/ \E t \in TypedTexts : type_text(t)
    \/ \E f \in Families : set_font(f)
    \/ \E n \in Sizes : set_font_size(n)
    \/ toggle_edit_mode
    \/ \E i \in 1 .. Len(text_blocks) : mousePressEvent(i)
    \/ \E p \in ClickPoints, ok \in BOOLEAN : on_image_click(p[1], p[2], ok)
    \/ \E ok \in BOOLEAN : apply_text_changes(MaxHist, ok)
    \/ \E ok \in BOOLEAN : prev_page(ok)
    \/ \E ok \in BOOLEAN : next_page(ok)
    \/ \E ok \in BOOLEAN : undo(ok)
    \/ \E ok \in BOOLEAN : redo(ok)
    \/ \E save \in SaveRuns : export_pdf(save)
    \/ \E save \in SaveRuns : export_docx(save)
    \/ \E save \in SaveRuns : export_png(save)

Spec == Init /\ [][Next]_vars

(***************************************************************************)
(* The PDF session: the handlers of the PDF tab on three files, with the   *)
(* photo tab never used, which leaves room for a deeper history.           *)
(***************************************************************************)
NextPdf ==
    \/ \E f \in PdfFiles \cup {NoFile}, ok \in BOOLEAN : open_pdf(f, ok)
    \/ \E t \in TypedTexts : type_text(t)
    \/ toggle_edit_mode
    \/ \E i \in 1 .. Len(text_blocks) : mousePressEvent(i)
    \/ \E ok \in BOOLEAN : apply_text_changes(MaxHistPdf, ok)
    \/ \E ok \in BOOLEAN : prev_page(ok)
    \/ \E ok \in BOOLEAN : next_page(ok)
    \/ \E ok \in BOOLEAN : undo(ok)
    \/ \E ok \in BOOLEAN : redo(ok)

SpecPdf == Init /\ [][NextPdf]_vars

(***************************************************************************)
(* The photo session: a readable photo with its OCR regions, next to a     *)
(* readable PDF whose commits give undo() and redo() something to restore, *)
(* with room for several photo edits.                                      *)
(***************************************************************************)
MaxHistPhoto == 2       \* snapshots kept in edit_history, photo session
MaxPhotoHist == 2       \* entries kept in photo_history, photo session

NextPhoto ==
    \/ \E ok \in BOOLEAN : open_pdf("near.pdf", ok)
    \/ \E ok \in BOOLEAN : open_photo("p.png", ok, "ok")
    \/ \E i \in {0, 1} : set_tab(i)
    \/ \E t \in TypedTexts : type_text(t)
    \/ \E f \in Families : set_font(f)
    \/ \E p \in ClickPoints, ok \in BOOLEAN : on_image_click(p[1], p[2], ok)
    \/ \E ok \in BOOLEAN :
           apply_text_changes_bounded(MaxHistPhoto, MaxPhotoHist, ok)
    \/ \E ok \in BOOLEAN : next_page(ok)
    \/ \E ok \in BOOLEAN : undo(ok)
    \/ \E ok \in BOOLEAN : redo(ok)

SpecPhoto == Init /\ [][NextPhoto]_vars

(***************************************************************************)
(* Extraction and hit-testing on drawn inputs.  The initial states are     *)
(* those inside load_pdf and open_photo once the file is open and before   *)
(* its regions are extracted, for every page of at most MaxDrawn spans and *)
(* every photo of at most MaxDrawn OCR tokens drawn from the sets below;   *)
(* the steps extract the regions and click on the photo.                   *)
(***************************************************************************)
MaxDrawn == 2

DrawnTexts == {<<" ">>, <<"A">>, <<"\r", "A", "U+00A0">>}

DrawnSpans ==
    {RawSpan(t, b[1], b[2], b[3], b[4], "Arial", 1200) :
        t \in DrawnTexts,
        b \in {<<10, 10, 40, 26>>, <<10, 10, 10, 26>>, <<10, 10, 40, 10>>}}

DrawnTokens ==
    {Token(t, c, b[1], b[2], b[3], b[4]) :
        t \in {<<"\f">>, <<"A">>},
        c \in {-1, 30, 31, 90},
        b \in {<<10, 10, 40, 16>>, <<30, 10, 40, 16>>, <<10, 10, 0, 16>>}}

SeqsUpTo(S, n) == UNION {[1 .. k -> S] : k \in 0 .. n}

HitPoints ==
    {<<5, 5>>, <<10, 10>>, <<29, 15>>, <<35, 15>>, <<60, 15>>, <<70, 26>>,
     <<71, 26>>}

InitDrawn ==
    /\ \/ /\ \E page \in SeqsUpTo(DrawnSpans, MaxDrawn) : pdf_doc = <<page>>
          /\ pdf_path = "drawn.pdf"
          /\ image = NoImage
          /\ photo_path = NoPath
          /\ tab = 0
       \/ /\ \E toks \in SeqsUpTo(DrawnTokens, MaxDrawn) :
                image = <<[file |-> "drawn.png", size |-> <<80, 40>>,
                           tokens |-> toks, painted |-> <<>>]>>
          /\ photo_path = "drawn.png"
          /\ pdf_doc = NoDoc
          /\ pdf_path = NoPath
          /\ tab = 1
    /\ current_page = 0
    /\ text_blocks = <<>>
    /\ selected_text_item = NoItem
    /\ edit_mode = FALSE
    /\ text_regions = <<>>
    /\ selected_region = NoRegion
    /\ edit_history = <<>>
    /\ history_index = -1
    /\ selected_position = NoPosition
    /\ selected_photo_region = NoRegion
    /\ photo_history = <<>>
    /\ text_input = <<>>
    /\ font_combo = "Sans Serif"
    /\ font_size = FontSizeDefault
    /\ msgbox = "none"
    /\ last_op = <<"init">>

(* load_pdf's call display_page(0), inside its try: what the render raises *)
(* is caught and reported.                                                 *)
display_first_page(render_ok) ==
    LET shown == display_page(pdf_doc, 0, current_page, text_blocks, render_ok)
    IN  /\ pdf_doc # NoDoc
        /\ last_op' = <<"display_page">>
        /\ msgbox' = IF shown[3] THEN "Failed to load PDF" ELSE "none"
        /\ current_page' = shown[1]
        /\ text_blocks' = shown[2]
        /\ UNCHANGED <<pdf_doc, canvas_vars, photo_vars, pdf_path, photo_path,
                       history_vars, selected_position, selected_photo_region,
                       photo_history, widget_vars, tab>>

NextDrawn ==
    \/ \E ok \in BOOLEAN : display_first_page(ok)
    \/ \E ocr \in OcrRuns : image # NoImage /\ ocr_button(ocr)
    \/ \E p \in HitPoints, ok \in BOOLEAN : on_image_click(p[1], p[2], ok)

SpecDrawn == InitDrawn /\ [][NextDrawn]_vars

(***************************************************************************)
(* The history session: two readable files, page changes, commits, undo()  *)
(* and redo(), with room for three snapshots.                              *)
(***************************************************************************)
MaxHistTwo == 3         \* snapshots kept in edit_history, history session

NextTwo ==
    \/ \E f \in {"a.pdf", "near.pdf"}, ok \in BOOLEAN : open_pdf(f, ok)
    \/ \E t \in TypedTexts : type_text(t)
    \/ \E ok \in BOOLEAN : apply_text_changes(MaxHistTwo, ok)
    \/ \E ok \in BOOLEAN : prev_page(ok)
    \/ \E ok \in BOOLEAN : next_page(ok)
    \/ \E ok \in BOOLEAN : undo(ok)
    \/ \E ok \in BOOLEAN : redo(ok)

SpecTwo == Init /\ [][NextTwo]_vars

(***************************************************************************)
(* Properties.  A step is recognised by the handler it leaves in last_op;  *)
(* the fields a handler never writes (text_input, tab, the selections for  *)
(* apply_text_changes) read the same before and after it.                  *)
(***************************************************************************)
Ran(op) == last_op'[1] = op

JustRan(op) == last_op[1] = op

(* An exception left the handler that ran last.                            *)
Raised == last_op[Len(last_op)] = "raised"

(* The user applies a PDF edit: in edit mode they clicked a text region    *)
(* that is on the page shown, the PDF tab is current, a document is loaded *)
(* and shown, and the text box is not empty.                               *)
PdfEditCase ==
    /\ text_input # <<>>
    /\ tab = 0
    /\ pdf_doc # NoDoc
    /\ selected_text_item # NoItem
    /\ \E i \in 1 .. Len(text_blocks) : text_blocks[i] = selected_text_item[1]
    /\ text_blocks = extract_text_blocks(pdf_doc[current_page + 1])

(* What extraction reads from page cur of a document.                      *)
ShownBlocks(doc, cur) == extract_text_blocks(doc[cur + 1])

(* C1: after an applied PDF edit, one undo() brings back the document as   *)
(* it was immediately before that edit (the document save_state recorded   *)
(* when the edit began), and with it the text blocks of the page.          *)
C1_UndoRestoresPreEdit ==
    [][(JustRan("apply_text_changes") /\ PdfEditCase /\ Ran("undo"))
        => /\ pdf_doc' = open_stream(edit_history[Len(edit_history)].doc_data)
           /\ text_blocks' = ShownBlocks(pdf_doc', current_page')]_vars

(* C2: a commit keeps the snapshots up to the pointer, drops the ones      *)
(* after it, appends one snapshot and points at it; a redo() straight      *)
(* after a commit changes nothing.                                         *)
C2_Committed == text_input # <<>> /\ pdf_doc # NoDoc

C2_CommitTruncates ==
    [][/\ (Ran("apply_text_changes") /\ C2_Committed)
          => /\ Len(edit_history') = history_index + 2
             /\ \A i \in 1 .. history_index + 1 :
                    edit_history'[i] = edit_history[i]
             /\ history_index' = Len(edit_history') - 1
       /\ (JustRan("apply_text_changes") /\ C2_Committed /\ Ran("redo"))
          => UNCHANGED <<pdf_vars, history_vars>>]_vars

(* C2 witness: the history [s0, s1, s3] with the pointer at 2 that undo()  *)
(* and a commit make of [s0, s1, s2]: s3 is the snapshot of the document   *)
(* undo() restored from s1, taken on page 1, and s0 is another document.   *)
C2_Witness ==
    /\ JustRan("apply_text_changes")
    /\ C2_Committed
    /\ Len(edit_history) = 3
    /\ history_index = 2
    /\ edit_history[3] = edit_history[2]
    /\ edit_history[2].page = 1
    /\ edit_history[1].doc_data # edit_history[2].doc_data

(* C3: undo() with the pointer at the first snapshot, or with no history,  *)
(* changes neither history, pointer nor document; otherwise it moves the   *)
(* pointer back by one, keeps the history, and makes the snapshot at the   *)
(* new pointer the working document, shown at the snapshot's page: the     *)
(* page index is the snapshot's and the blocks on the canvas are those of  *)
(* that page of the snapshot.                                              *)
C3_UndoContract ==
    [][Ran("undo")
        => IF history_index <= 0
           THEN UNCHANGED <<pdf_vars, history_vars>>
           ELSE /\ history_index' = history_index - 1
                /\ edit_history' = edit_history
                /\ pdf_doc' = edit_history[history_index' + 1].doc_data[2]
                /\ current_page' = edit_history[history_index' + 1].page
                /\ text_blocks' = ShownBlocks(pdf_doc', current_page')]_vars

(* C4: apply_text_changes with an empty text box changes neither the       *)
(* working PDF document and its display, the working image, edit_history,  *)
(* history_index nor the photo undo list.                                  *)
C4_EmptyTextNoOp ==
    [][(Ran("apply_text_changes") /\ text_input = <<>>)
        => UNCHANGED <<pdf_doc, current_page, text_blocks, image,
                       edit_history, history_index, photo_history>>]_vars

(* C4 witness: the handler ran on an empty text box with a PDF and a photo *)
(* loaded, a text item clicked in edit mode and a photo region selected,   *)
(* so that a text would have been committed.                               *)
C4_Witness ==
    /\ JustRan("apply_text_changes")
    /\ text_input = <<>>
    /\ pdf_doc # NoDoc
    /\ image # NoImage
    /\ selected_text_item # NoItem
    /\ selected_photo_region # NoRegion

(* C5: apply_text_changes with a non-empty text and nothing to apply it to *)
(* (no selection for the current tab, or no document loaded) leaves the    *)
(* working document, the working image, edit_history and history_index as  *)
(* they were.                                                              *)
C5_NothingToEdit ==
    \/ /\ tab = 0
       /\ \/ selected_position = NoPosition /\ selected_text_item = NoItem
          \/ pdf_doc = NoDoc
    \/ tab = 1 /\ (selected_photo_region = NoRegion \/ image = NoImage)

C5_NoSelectionNoOp ==
    [][(Ran("apply_text_changes") /\ text_input # <<>> /\ C5_NothingToEdit)
        => UNCHANGED <<pdf_doc, image, edit_history, history_index>>]_vars

(* C6: whenever a load replaces the document or the photo, or a page       *)
(* change or a restore shows another page or document, the selection made  *)
(* before is cleared, so that no later edit can use it.                    *)
C6_SelectionCleared ==
    [][/\ ((Ran("open_pdf") \/ Ran("prev_page") \/ Ran("next_page")
              \/ Ran("undo") \/ Ran("redo"))
           /\ (pdf_doc' # pdf_doc \/ current_page' # current_page))
          => selected_position' = NoPosition
       /\ (Ran("open_photo") /\ image' # image)
          => selected_photo_region' = NoRegion /\ selected_region' = NoRegion
      ]_vars

(* C7: an applied PDF edit leaves exactly one snapshot past the pointer it *)
(* started from: the document as it was before the edit, tagged with the   *)
(* page shown then.                                                        *)
C7_SnapshotBeforeEdit ==
    [][(Ran("apply_text_changes") /\ PdfEditCase)
        => /\ Len(edit_history') = history_index + 2
           /\ edit_history'[Len(edit_history')].type = "pdf"
           /\ edit_history'[Len(edit_history')].doc_data[2] = pdf_doc
           /\ edit_history'[Len(edit_history')].page = current_page]_vars

(* C7 witness: an edit was applied on page 1 to a region clicked there,    *)
(* and left a second snapshot, tagged page 1, of the document as it was.   *)
C7_Witness ==
    /\ JustRan("apply_text_changes")
    /\ PdfEditCase
    /\ Len(edit_history) = 2
    /\ history_index = 1
    /\ edit_history[2].page = 1
    /\ edit_history[1].page = 0
    /\ current_page = 1

(* C8: a load that fails changes nothing: document, image, page, region    *)
(* lists, selections, stored paths and history keep their values.          *)
C8_FailedLoadNoChange ==
    [][(\/ Ran("open_pdf") /\ msgbox' = "Failed to load PDF"
        \/ Ran("open_photo") /\ msgbox' = "Failed to load image")
        => UNCHANGED <<pdf_doc, current_page, text_blocks, image, text_regions,
                       selected_region, selected_position,
                       selected_photo_region, pdf_path, photo_path,
                       edit_history, history_index>>]_vars

(* C9: a click on the photo selects the earliest region of the list whose  *)
(* box contains the point, borders included, and selects nothing new when  *)
(* no box contains it.                                                     *)
C9_Inside(r, px, py) ==
    /\ r.x <= px /\ px <= r.x + r.width
    /\ r.y <= py /\ py <= r.y + r.height

C9_Hits(px, py) ==
    {i \in 1 .. Len(text_regions) : C9_Inside(text_regions[i], px, py)}

C9_HitTest ==
    [][Ran("on_image_click")
        => LET hits == C9_Hits(last_op'[2], last_op'[3])
           IN  IF hits = {}
               THEN UNCHANGED <<selected_region, selected_photo_region>>
               ELSE \E i \in hits :
                       /\ \A j \in hits : i <= j
                       /\ selected_region' = <<text_regions[i]>>
                       /\ selected_photo_region' = <<text_regions[i]>>]_vars

(* C9 witness: a click inside two different regions selected the first.    *)
C9_Witness ==
    /\ JustRan("on_image_click")
    /\ Len(text_regions) = 2
    /\ text_regions[1] # text_regions[2]
    /\ C9_Hits(last_op[2], last_op[3]) = {1, 2}
    /\ selected_region = <<text_regions[1]>>

(* C10: every extracted region, from a PDF page or from OCR, has a         *)
(* positive width, a positive height and a non-empty text.                 *)
C10_NonDegenerate ==
    /\ \A i \in 1 .. Len(text_blocks) :
          /\ text_blocks[i].width > 0
          /\ text_blocks[i].height > 0
          /\ text_blocks[i].text # <<>>
    /\ \A i \in 1 .. Len(text_regions) :
          /\ text_regions[i].width > 0
          /\ text_regions[i].height > 0
          /\ text_regions[i].text # <<>>

(* C11: every region of text_regions has a confidence above 30 and a text  *)
(* with a visible character, and a successful OCR run returns exactly the  *)
(* tokens with a confidence above 30 (the marker -1 is not above 30) and a *)
(* visible character, in the order the engine reported them.               *)
C11_Visible(t) == \E k \in 1 .. Len(t) : t[k] \notin WhiteSpace

C11_Passing(tokens) ==
    {i \in 1 .. Len(tokens) : tokens[i].conf > 30 /\ C11_Visible(tokens[i].text)}

C11_ConfidenceFilter ==
    [][/\ \A i \in 1 .. Len(text_regions') :
             /\ text_regions'[i].confidence > 30
             /\ C11_Visible(text_regions'[i].text)
       /\ (Ran("extract_text_with_ocr") /\ msgbox' = "none")
          => LET tokens == image[1].tokens
                 pass == C11_Passing(tokens)
             IN  /\ Len(text_regions') = Cardinality(pass)
                 /\ \A i \in pass :
                        LET k == Cardinality({j \in pass : j <= i})
                        IN  /\ text_regions'[k].x = tokens[i].left
                            /\ text_regions'[k].y = tokens[i].top
                            /\ text_regions'[k].width = tokens[i].width
                            /\ text_regions'[k].height = tokens[i].height
                            /\ text_regions'[k].confidence = tokens[i].conf
                            /\ text_regions'[k].text = strip(tokens[i].text)
      ]_vars

(* C11 witness: OCR ran on a token at confidence 30 followed by a token at *)
(* 31, both with visible text, and returned the second one only.           *)
C11_Witness ==
    /\ JustRan("extract_text_with_ocr")
    /\ msgbox = "none"
    /\ image # NoImage
    /\ Len(image[1].tokens) = 2
    /\ image[1].tokens[1].conf = 30
    /\ C11_Visible(image[1].tokens[1].text)
    /\ image[1].tokens[2].conf = 31
    /\ Len(text_regions) = 1
    /\ text_regions[1].confidence = 31

(* C12: apply_text_changes on the photo tab with a non-empty text and no   *)
(* photo selection shows the "No Selection" message and leaves the working *)
(* image and the photo undo list as they were.                             *)
C12_PhotoEditNeedsSelection ==
    [][(/\ Ran("apply_text_changes")
        /\ text_input # <<>>
        /\ tab = 1
        /\ selected_photo_region = NoRegion)
        => /\ msgbox' = "No Selection"
           /\ UNCHANGED <<image, photo_history>>]_vars

(* C12 witness: the handler ran on the photo tab with a photo loaded, its  *)
(* regions extracted, a text typed and no region selected.                 *)
C12_Witness ==
    /\ JustRan("apply_text_changes")
    /\ text_input # <<>>
    /\ tab = 1
    /\ selected_photo_region = NoRegion
    /\ image # NoImage
    /\ text_regions # <<>>
    /\ msgbox = "No Selection"

(* The box of a displayed block, as <<x0, y0, x1, y1>>.                    *)
C13_Box(b) == <<b.x, b.y, b.x + b.width, b.y + b.height>>

(* C13: after a PDF edit applied to the selected region with a non-empty   *)
(* new text, text_blocks is the extraction of the page as the edit left    *)
(* it, one of its blocks carries the new text at the selected region's x,  *)
(* and no other block overlaps the box of the selected region.             *)
C13_ReextractedAnyText ==
    [][(Ran("apply_text_changes") /\ PdfEditCase)
        => LET sel == selected_text_item[1]
           IN  /\ text_blocks' = ShownBlocks(pdf_doc', current_page')
               /\ \E k \in 1 .. Len(text_blocks') :
                     /\ text_blocks'[k].text = text_input
                     /\ text_blocks'[k].x = sel.x
                     /\ \A i \in 1 .. Len(text_blocks') :
                            i # k => ~Intersects(C13_Box(text_blocks'[i]),
                                                 C13_Box(sel))]_vars

(* apply_text_changes took its photo branch: non-empty text, photo tab, a  *)
(* photo selection, a photo loaded.                                        *)
PhotoEditCase ==
    /\ text_input # <<>>
    /\ tab = 1
    /\ selected_photo_region # NoRegion
    /\ image # NoImage

(* C14: an applied photo edit appends exactly the pre-edit image to the    *)
(* photo undo list; every other step leaves the list as it is; undo() and  *)
(* redo() change neither the list nor the working image, which only a load *)
(* or an applied photo edit replaces.                                      *)
C14_PhotoUndoAppendOnly ==
    [][/\ IF Ran("apply_text_changes") /\ PhotoEditCase
          THEN photo_history' = Append(photo_history, image[1])
          ELSE photo_history' = photo_history
       /\ (Ran("undo") \/ Ran("redo")) => image' = image
       /\ image' # image
          => \/ Ran("open_photo")
             \/ Ran("apply_text_changes") /\ PhotoEditCase]_vars

(* C14 witness: undo() restored a PDF snapshot while the photo undo list   *)
(* held the two pre-edit images of two photo edits, oldest first, and the  *)
(* working image kept both edits.                                          *)
C14_Witness ==
    /\ JustRan("undo")
    /\ history_index < Len(edit_history) - 1
    /\ pdf_doc = open_stream(edit_history[history_index + 1].doc_data)
    /\ Len(photo_history) = 2
    /\ photo_history[1].painted = <<>>
    /\ Len(photo_history[2].painted) = 1
    /\ image # NoImage
    /\ Len(image[1].painted) = 2

(* C15: a PDF edit erases the bounding box of the selected region itself:  *)
(* the spans of the page that overlap the box of the region the user       *)
(* selected are gone from the page, and every span that does not overlap   *)
(* it is still there, even when it lies within the tolerance of the        *)
(* selection.                                                              *)
C15_ErasesOwnBox ==
    [][(Ran("apply_text_changes") /\ PdfEditCase)
        => LET box == C13_Box(selected_text_item[1])
               old == pdf_doc[current_page + 1]
               new == pdf_doc'[current_page + 1]
               Kept(span) == \E k \in 1 .. Len(new) : new[k] = span
           IN  \A i \in 1 .. Len(old) :
                  IF Intersects(old[i].bbox, box)
                  THEN ~Kept(old[i])
                  ELSE Kept(old[i])]_vars

(* C16: a PDF edit with a font family the engine does not accept adds the  *)
(* new text to the page in the built-in default family, at the selected    *)
(* region's position and in the requested size, and shows no message; and  *)
(* no handler of the edit (the click that selects, the Apply button) ends  *)
(* with an exception leaving it.                                           *)
C16_FontFallback ==
    [][/\ (/\ Ran("apply_text_changes")
           /\ PdfEditCase
           /\ font_combo \notin {"helv", "Helvetica", "Courier", "Times-Roman"})
          => LET page == pdf_doc'[current_page + 1]
                 span == page[Len(page)]
             IN  /\ span.text = text_input
                 /\ span.font = "Helvetica"
                 /\ span.size = font_size * 100
                 /\ span.bbox[1] = selected_text_item[1].x
                 /\ span.bbox[2] = selected_text_item[1].y
                 /\ msgbox' = "none"
       /\ (Ran("mousePressEvent") \/ Ran("apply_text_changes")) => ~Raised'
      ]_vars

(* C17: an applied photo edit replaces the working image and leaves the    *)
(* photo region list, the photo selection, the PDF working document, its   *)
(* page index and its displayed blocks as they were.                       *)
C17_PhotoEditFrame ==
    [][(Ran("apply_text_changes") /\ PhotoEditCase)
        => /\ image' # image
           /\ UNCHANGED <<text_regions, selected_region,
                          selected_photo_region, pdf_doc, current_page,
                          text_blocks>>]_vars

(* C17 witness: a photo edit was applied while a PDF was shown at its      *)
(* second page, and the photo still has its regions and its selection.     *)
C17_Witness ==
    /\ JustRan("apply_text_changes")
    /\ PhotoEditCase
    /\ Len(image[1].painted) = 1
    /\ text_regions # <<>>
    /\ selected_region = selected_photo_region
    /\ pdf_doc # NoDoc
    /\ current_page = 1
    /\ text_blocks # <<>>

(* C18: in every reachable state history_index lies between -1 and         *)
(* len(edit_history) - 1, and it is -1 exactly when edit_history is empty. *)
C18_IndexInRange ==
    /\ -1 <= history_index
    /\ history_index <= Len(edit_history) - 1
    /\ (history_index = -1) <=> (edit_history = <<>>)

(* C18 witness: after commits and an undo(), redo() has moved the pointer  *)
(* back to the last of three snapshots and restored it.                    *)
C18_Witness ==
    /\ JustRan("redo")
    /\ Len(edit_history) = 3
    /\ history_index = 2
    /\ pdf_doc = open_stream(edit_history[3].doc_data)
    /\ pdf_doc # open_stream(edit_history[1].doc_data)

(* C19: a successful open_pdf leaves edit_history and history_index as     *)
(* they were, and an undo() straight after it with history_index > 0 makes *)
(* the snapshot below the pointer, taken from the document loaded before,  *)
(* the working document in place of the one just loaded.                   *)
C19_LoadKeepsHistory ==
    [][/\ (Ran("open_pdf") /\ msgbox' = "none")
          => UNCHANGED <<edit_history, history_index>>
       /\ (/\ JustRan("open_pdf")
           /\ msgbox = "none"
           /\ history_index > 0
           /\ Ran("undo"))
          => /\ history_index' = history_index - 1
             /\ pdf_doc' = open_stream(edit_history[history_index].doc_data)
      ]_vars

(* C19 witness: with near.pdf the file loaded last, undo() has made the    *)
(* first snapshot, a.pdf, the working document.                            *)
C19_Witness ==
    /\ JustRan("undo")
    /\ pdf_path = "near.pdf"
    /\ Len(edit_history) = 2
    /\ history_index = 0
    /\ pdf_doc = PdfA
    /\ open_stream(edit_history[1].doc_data) = PdfA

(* C20: the document an applied PDF edit produces is in no snapshot of     *)
(* edit_history.                                                           *)
C20_PostEditNotStored ==
    (JustRan("apply_text_changes") /\ PdfEditCase)
       => \A i \in 1 .. Len(edit_history) :
              edit_history[i].doc_data # tobytes(pdf_doc)

====
